---- MODULE Spec2Model ----
(***************************************************************************)
(* Model of endpoint/models/endpoint_mixin.py (class EndpointMixin).       *)
(*                                                                         *)
(* State: the table of endpoint records and the outcome of the last call   *)
(* made on it (what was returned or raised, what was logged, whether the   *)
(* restricted evaluator ran and with which context).                       *)
(***************************************************************************)
EXTENDS Integers, Sequences, FiniteSets, TLC

VARIABLES records, last

vars == <<records, last>>

----------------------------------------------------------------------------
(* Python values, as far as the mixin looks at them: a type and a repr.    *)

PyVal(t, r) == [type |-> t, repr |-> r]

PyNone == PyVal("NoneType", "None")

EmptyDict == PyVal("dict", "{}")

\* the value absent: nothing returned (the call raised) / name not bound
Nothing == PyVal("", "")

\* isinstance(v, dict)
IsDict(v) == v.type = "dict"

\* truth value of a Python value (`if params:`)
Truthy(v) ==
    /\ v.type \notin {"NoneType", ""}
    /\ v.repr \notin {"{}", "''", "0", "False"}

\* an exception: its class and its message; NoExc when nothing is raised
Exc(c, m) == [class |-> c, msg |-> m]

NoExc == Exc("", "")

Raised(e) == e.class # ""

----------------------------------------------------------------------------
(* Text. A text is a sequence of characters; a statement of a snippet is   *)
(* kept as one unit, as is a word of a comment.                            *)

NL == "\n"

SP == " "

HASH == "#"

StmtResultOk == "result = {'payload': 'ok'}"

StmtResultStr == "result = 'not a dict'"

StmtResultCtx == "result = {'user': user.id, 'params': params}"

StmtAssign == "x = 1"

StmtRaiseUser == "raise exceptions.UserError('boom')"

StmtRaiseValidation == "raise exceptions.ValidationError('invalid')"

StmtRaiseNotFound == "raise werkzeug.exceptions.NotFound()"

\* a Text field: unset (NULL, read as False) or a text
NoSnippet == [isset |-> FALSE, text |-> <<>>]

Text(t) == [isset |-> TRUE, text |-> t]

\* `self.code_snippet or ""`
OrEmpty(field) == IF field.isset /\ field.text # <<>> THEN field.text ELSE <<>>

\* str.splitlines(): lines without their line breaks; no last empty line
RECURSIVE splitlines(_)
splitlines(s) ==
    IF s = <<>> THEN <<>>
    ELSE LET brk == {i \in 1..Len(s) : s[i] = NL} IN
         IF brk = {} THEN <<s>>
         ELSE LET i == CHOOSE k \in brk : \A j \in brk : k <= j IN
              <<SubSeq(s, 1, i - 1)>> \o splitlines(SubSeq(s, i + 1, Len(s)))

\* str.startswith(c) for a one-character prefix
startswith(line, c) == line # <<>> /\ line[1] = c

\* str.lstrip(chars) / str.rstrip(chars) / str.strip(chars)
RECURSIVE lstrip(_, _)
lstrip(line, chars) ==
    IF line # <<>> /\ line[1] \in chars THEN lstrip(Tail(line), chars) ELSE line

RECURSIVE rstrip(_, _)
rstrip(line, chars) ==
    IF line # <<>> /\ line[Len(line)] \in chars
    THEN rstrip(SubSeq(line, 1, Len(line) - 1), chars)
    ELSE line

strip(line, chars) == rstrip(lstrip(line, chars), chars)

----------------------------------------------------------------------------
(* The model's fields and the values the inputs are drawn from.            *)

AuthTypes == {"public", "user_endpoint"}

\* ids of res.users; 0 is the empty recordset (falsy)
NoUser == 0

Users == {1, 2}

\* the users an endpoint is given to run as
ExecUsers == {1}

\* "code" is the one mode the mixin defines; "custom" is a mode a model
\* using the mixin adds to the selection without defining methods for it
ExecModes == {"code", "custom"}

\* methods of the class whose names are looked up with getattr
ClassAttrs == {"_validate_exec__code", "_handle_exec__code"}

Methods == {"", "GET"}

ContentTypes == {"", "application/json"}

Routes == {"/foo"}

Snippets ==
    { NoSnippet,
      Text(<<>>),
      Text(<<SP, SP>>),
      Text(<<HASH, SP, "todo">>),
      Text(<<HASH, "c", NL, StmtResultOk>>),
      Text(<<StmtResultOk>>),
      Text(<<StmtResultStr>>),
      Text(<<StmtResultCtx>>),
      Text(<<StmtAssign>>),
      Text(<<StmtRaiseUser>>),
      Text(<<StmtRaiseValidation>>),
      Text(<<StmtRaiseNotFound>>) }

Endpoint(route, auth, user, mode, snippet, method, ctype) ==
    [ route |-> route,
      auth_type |-> auth,
      exec_as_user_id |-> user,
      exec_mode |-> mode,
      code_snippet |-> snippet,
      request_method |-> method,
      request_content_type |-> ctype ]

NoEndpoint == Endpoint("", "", NoUser, "", NoSnippet, "", "")

----------------------------------------------------------------------------
(* Validation at save time.                                                *)

\* the list `[not line.startswith("#") for line in lines if line.strip("")]`
RECURSIVE NotCommentFlags(_)
NotCommentFlags(lines) ==
    IF lines = <<>> THEN <<>>
    ELSE (IF strip(Head(lines), {}) # <<>>
          THEN <<~startswith(Head(lines), HASH)>>
          ELSE <<>>)
         \o NotCommentFlags(Tail(lines))

\* variant: a snippet counts as valued as soon as the field is set
_code_snippet_valued_isset(rec) == rec.code_snippet.isset

\* bool(list): a list is true when it is not empty
_code_snippet_valued(rec) ==
    LET snippet == OrEmpty(rec.code_snippet)
    IN  Len(NotCommentFlags(splitlines(snippet))) > 0

_validate_exec__code(rec) ==
    IF ~_code_snippet_valued(rec)
    THEN Exc("UserError",
             "Exec mode is set to Code: you must provide a piece of code")
    ELSE NoExc

\* getattr(self, name, default) then validator(): the default is
\* `lambda x: True`, which takes one argument and is called with none
_validate_exec_mode(rec) ==
    LET name == "_validate_exec__" \o rec.exec_mode IN
    IF name \in ClassAttrs
    THEN _validate_exec__code(rec)
    ELSE Exc("TypeError", "<lambda>() missing 1 required positional argument: 'x'")

_check_exec_mode(rec) == _validate_exec_mode(rec)

_check_auth(rec) ==
    IF rec.auth_type = "public" /\ rec.exec_as_user_id = NoUser
    THEN Exc("UserError", "'Exec as user' is mandatory for public endpoints.")
    ELSE NoExc

\* @api.constrains: the fields whose writing runs each constraint
ConstrainsExecMode == {"exec_mode"}

ConstrainsAuth == {"auth_type"}

\* the constraints run by a save that sets the fields `names`
_validate_fields(rec, names) ==
    LET auth == IF names \cap ConstrainsAuth # {} THEN _check_auth(rec) ELSE NoExc
        mode == IF names \cap ConstrainsExecMode # {}
                THEN _check_exec_mode(rec) ELSE NoExc
    IN  IF Raised(auth) THEN auth ELSE mode

----------------------------------------------------------------------------
(* Handling a request.                                                     *)

\* a recordset: a record of the table bound to an environment (its user)
Self(id, uid) == [id |-> id, uid |-> uid]

\* variant: the environment is left as it is
with_user_same(self, user) == self

\* record.with_user(user): the same record in an environment of that user
with_user(self, user) == Self(self.id, user)

Request(method, ctype) == [method |-> method, content_type |-> ctype]

NoRequest == Request("", "")

Requests == {Request(m, c) : m \in {"GET", "POST"},
                             c \in {"application/json", "text/plain"}}

ParamValues == {PyNone, EmptyDict, PyVal("dict", "{'id': 7}")}

\* the names of the evaluation context that depend on the call
EvalContext(user, endpoint, request, params) ==
    [user |-> user, endpoint |-> endpoint, request |-> request, params |-> params]

NoContext == EvalContext(NoUser, Self(0, NoUser), NoRequest, Nothing)

_get_code_snippet_eval_context(self, request) ==
    EvalContext(self.uid, self, request, Nothing)

\* one statement run by the evaluator: the exception it raises and the
\* value `result` is bound to afterwards
ExecStatement(stmt, ctx, bound) ==
    CASE stmt = StmtResultOk ->
            [exc |-> NoExc, bound |-> PyVal("dict", "{'payload': 'ok'}")]
      [] stmt = StmtResultStr ->
            [exc |-> NoExc, bound |-> PyVal("str", "'not a dict'")]
      [] stmt = StmtResultCtx ->
            [exc |-> NoExc,
             bound |-> PyVal("dict", "{'user': " \o ToString(ctx.user)
                                     \o ", 'params': " \o ctx.params.repr \o "}")]
      [] stmt = StmtAssign ->
            [exc |-> NoExc, bound |-> bound]
      [] stmt = StmtRaiseUser ->
            [exc |-> Exc("UserError", "boom"), bound |-> bound]
      [] stmt = StmtRaiseValidation ->
            [exc |-> Exc("ValidationError", "invalid"), bound |-> bound]
      [] stmt = StmtRaiseNotFound ->
            [exc |-> Exc("NotFound", "Not Found"), bound |-> bound]
      [] OTHER ->
            [exc |-> Exc("ValueError", "while evaluating"), bound |-> bound]

\* the lines of a snippet run in order: blank and comment lines do nothing,
\* an indented statement does not compile, an exception ends the run
RECURSIVE ExecLines(_, _, _)
ExecLines(lines, ctx, bound) ==
    IF lines = <<>> THEN [exc |-> NoExc, bound |-> bound]
    ELSE LET line == Head(lines)
             body == lstrip(line, {SP})
         IN  IF body = <<>> \/ startswith(body, HASH)
             THEN ExecLines(Tail(lines), ctx, bound)
             ELSE IF body # line
             THEN [exc |-> Exc("ValueError", "unexpected indent"), bound |-> bound]
             ELSE LET done == ExecStatement(line[1], ctx, bound)
                  IN  IF Raised(done.exc) THEN done
                      ELSE ExecLines(Tail(lines), ctx, done.bound)

\* safe_eval.safe_eval(snippet, eval_ctx, mode="exec", nocopy=True)
safe_eval(snippet, ctx) == ExecLines(splitlines(snippet), ctx, Nothing)

\* eval_ctx.get("result")
GetResult(bound) == IF bound = Nothing THEN PyNone ELSE bound

\* what a handler call gives: the exception raised or the value returned,
\* the number of evaluator calls, the context of the evaluation, the
\* exception it raised and the `result` binding it left, and the value the
\* handler's `params` parameter had
HandlerOut(exc, res, evals, ctx, evalexc, bound, got) ==
    [exc |-> exc, res |-> res, evals |-> evals, ctx |-> ctx, evalexc |-> evalexc,
     bound |-> bound, got |-> got]

\* variant: whatever `result` holds is returned, its type unchecked
_handle_exec__code_unchecked(rec, self, request, params) ==
    IF ~_code_snippet_valued(rec)
    THEN HandlerOut(NoExc, EmptyDict, 0, NoContext, NoExc, Nothing, params)
    ELSE LET ctx0 == _get_code_snippet_eval_context(self, request)
             eval_ctx == [ctx0 EXCEPT !.params = params]
             run == safe_eval(rec.code_snippet.text, eval_ctx)
         IN  IF Raised(run.exc)
             THEN HandlerOut(run.exc, Nothing, 1, eval_ctx, run.exc, run.bound,
                             params)
             ELSE HandlerOut(NoExc, GetResult(run.bound), 1, eval_ctx, NoExc,
                             run.bound, params)

_handle_exec__code(rec, self, request, params) ==
    IF ~_code_snippet_valued(rec)
    THEN HandlerOut(NoExc, EmptyDict, 0, NoContext, NoExc, Nothing, params)
    ELSE LET ctx0 == _get_code_snippet_eval_context(self, request)
             eval_ctx == [ctx0 EXCEPT !.params = params]
             snippet == rec.code_snippet.text
             run == safe_eval(snippet, eval_ctx)
             result == GetResult(run.bound)
         IN  IF Raised(run.exc)
             THEN HandlerOut(run.exc, Nothing, 1, eval_ctx, run.exc, run.bound,
                             params)
             ELSE IF ~IsDict(result)
             THEN HandlerOut(
                      Exc("UserError",
                          "code_snippet should return a dict into result variable."),
                      Nothing, 1, eval_ctx, NoExc, run.bound, params)
             ELSE HandlerOut(NoExc, result, 1, eval_ctx, NoExc, run.bound, params)

\* getattr(self, "_handle_exec__" + exec_mode): the method's name, or ""
\* with the UserError raised for the AttributeError
_get_handler(rec) ==
    LET name == "_handle_exec__" \o rec.exec_mode IN
    IF name \in ClassAttrs
    THEN [exc |-> NoExc, handler |-> name]
    ELSE [exc |-> Exc("UserError", "Missing handler for exec mode " \o rec.exec_mode),
          handler |-> ""]

\* the call of the bound method _get_handler returned; a `params` parameter
\* left out of the call has its default, None
CallHandler(handler, rec, self, request, params) ==
    IF handler = "_handle_exec__code"
    THEN _handle_exec__code(rec, self, request, params)
    ELSE HandlerOut(Exc("AttributeError", handler), Nothing, 0, NoContext, NoExc,
                    Nothing, Nothing)

_bad_request_exceptions == {"UserError", "ValidationError"}

\* what a call on an endpoint gives its caller
CallOut(exc, cause, res, log, ran, h) ==
    [exc |-> exc, cause |-> cause, res |-> res, log |-> log, ran |-> ran,
     hexc |-> h.exc, evals |-> h.evals, ctx |-> h.ctx, evalexc |-> h.evalexc,
     bound |-> h.bound, got |-> h.got]

NotCalled == HandlerOut(NoExc, Nothing, 0, NoContext, NoExc, Nothing, Nothing)

\* variant: the method is compared even when the endpoint declares none
_validate_request_undeclared(rec, request) ==
    IF rec.request_method # request.method
    THEN CallOut(Exc("MethodNotAllowed", "Method Not Allowed"), NoExc, Nothing,
                 <<"_validate_request: MethodNotAllowed">>, FALSE, NotCalled)
    ELSE IF /\ rec.request_content_type # ""
            /\ rec.request_content_type # request.content_type
    THEN CallOut(Exc("UnsupportedMediaType", "Unsupported Media Type"), NoExc,
                 Nothing, <<"_validate_request: UnsupportedMediaType">>, FALSE,
                 NotCalled)
    ELSE CallOut(NoExc, NoExc, PyNone, <<>>, FALSE, NotCalled)

_validate_request(rec, request) ==
    IF rec.request_method # "" /\ rec.request_method # request.method
    THEN CallOut(Exc("MethodNotAllowed", "Method Not Allowed"), NoExc, Nothing,
                 <<"_validate_request: MethodNotAllowed">>, FALSE, NotCalled)
    ELSE IF /\ rec.request_content_type # ""
            /\ rec.request_content_type # request.content_type
    THEN CallOut(Exc("UnsupportedMediaType", "Unsupported Media Type"), NoExc,
                 Nothing, <<"_validate_request: UnsupportedMediaType">>, FALSE,
                 NotCalled)
    ELSE CallOut(NoExc, NoExc, PyNone, <<>>, FALSE, NotCalled)

\* handler(request, params=params) when `params` is true, handler(request)
\* otherwise: the handler's `params` parameter then has its default, None
_handle_request(rec, self, request, params) ==
    LET self_with_user ==
            IF rec.exec_as_user_id # NoUser
            THEN with_user(self, rec.exec_as_user_id)
            ELSE self
        found == _get_handler(rec)
        res == IF Truthy(params)
               THEN CallHandler(found.handler, rec, self_with_user, request, params)
               ELSE CallHandler(found.handler, rec, self_with_user, request, PyNone)
    IN  IF Raised(found.exc)
        THEN CallOut(found.exc, NoExc, Nothing, <<>>, FALSE, NotCalled)
        ELSE IF res.exc.class \in _bad_request_exceptions
        THEN CallOut(Exc("BadRequest", "Bad Request"), res.exc, Nothing,
                     <<"_validate_request: BadRequest">>, TRUE, res)
        ELSE CallOut(res.exc, NoExc, res.res, <<>>, TRUE, res)

\* search([("route", "=", endpoint_route)], limit=1): the id found, or 0
_find_endpoint(table, endpoint_route) ==
    LET found == {i \in 1..Len(table) : table[i].route = endpoint_route} IN
    IF found = {} THEN 0 ELSE CHOOSE i \in found : \A j \in found : i <= j

\* the `default` argument of copy_data, as far as the route goes
NoDefault == [has_route |-> FALSE, route |-> ""]

DefaultRoute(r) == [has_route |-> TRUE, route |-> r]

\* default.setdefault("route", f"{self.route}/COPY_FIXME"); the other
\* fields are copied by the inherited copy_data
copy_data(rec, default) ==
    [rec EXCEPT !.route = IF default.has_route THEN default.route
                          ELSE rec.route \o "/COPY_FIXME"]

----------------------------------------------------------------------------
(* The state machine.                                                      *)

MaxRecords == 4

Fields == {"route", "auth_type", "exec_as_user_id", "exec_mode", "code_snippet",
           "request_method", "request_content_type"}

\* the fields the writes of the model set
WritableFields == {"auth_type", "exec_as_user_id", "exec_mode", "code_snippet"}

\* the constraints a save of the fields `names` runs
Checked(names) ==
    {c \in {"_check_auth", "_check_exec_mode"} :
        \/ c = "_check_auth" /\ names \cap ConstrainsAuth # {}
        \/ c = "_check_exec_mode" /\ names \cap ConstrainsExecMode # {}}

\* the outcome of a call: the call and what it gave (CallOut)
Call(op, id, uid, request, params, names, vals, out) ==
    [op |-> op, id |-> id, uid |-> uid, request |-> request, params |-> params,
     checked |-> Checked(names), vals |-> vals,
     exc |-> out.exc, cause |-> out.cause, res |-> out.res, log |-> out.log,
     ran |-> out.ran, hexc |-> out.hexc, evals |-> out.evals, ctx |-> out.ctx,
     evalexc |-> out.evalexc, bound |-> out.bound, got |-> out.got]

SaveOut(exc) ==
    CallOut(exc, NoExc, IF Raised(exc) THEN Nothing ELSE PyNone, <<>>, FALSE,
            NotCalled)

NoCall == Call("", 0, NoUser, NoRequest, Nothing, {}, NoEndpoint, SaveOut(NoExc))

UsedRoutes == {records[i].route : i \in 1..Len(records)}

Init ==
    /\ records = <<>>
    /\ last = NoCall

\* create(vals): every field is given, so every constraint runs; a
\* constraint that raises rolls the creation back
Create ==
    \E route \in Routes \ UsedRoutes, auth \in AuthTypes,
       user \in {NoUser} \cup ExecUsers, mode \in ExecModes, snippet \in Snippets,
       method \in Methods, ctype \in ContentTypes :
        LET vals == Endpoint(route, auth, user, mode, snippet, method, ctype)
            exc == _validate_fields(vals, Fields)
        IN  /\ records' = IF Raised(exc) THEN records ELSE Append(records, vals)
            /\ last' = Call("create", IF Raised(exc) THEN 0 ELSE Len(records) + 1,
                            NoUser, NoRequest, Nothing, Fields, vals, SaveOut(exc))

\* write(vals) on one record: the constraints of the fields in vals run on
\* the record as written; a constraint that raises rolls the write back
Write ==
    \E id \in 1..Len(records), names \in SUBSET WritableFields :
    \E auth \in IF "auth_type" \in names THEN AuthTypes
                ELSE {records[id].auth_type},
       user \in IF "exec_as_user_id" \in names THEN {NoUser} \cup ExecUsers
                ELSE {records[id].exec_as_user_id},
       mode \in IF "exec_mode" \in names THEN ExecModes
                ELSE {records[id].exec_mode},
       snippet \in IF "code_snippet" \in names THEN Snippets
                   ELSE {records[id].code_snippet} :
        LET vals == [records[id] EXCEPT !.auth_type = auth,
                                        !.exec_as_user_id = user,
                                        !.exec_mode = mode,
                                        !.code_snippet = snippet]
            exc == _validate_fields(vals, names)
        IN  /\ records' = IF Raised(exc) THEN records
                          ELSE [records EXCEPT ![id] = vals]
            /\ last' = Call("write", id, NoUser, NoRequest, Nothing, names, vals,
                            SaveOut(exc))

\* copy(default): create(copy_data(default)); a route given in `default` is
\* one no record has
Copy ==
    \E id \in 1..Len(records),
       default \in {NoDefault} \cup {DefaultRoute(r) : r \in {"/new"} \ UsedRoutes} :
        LET vals == copy_data(records[id], default)
            exc == _validate_fields(vals, Fields)
        IN  /\ Len(records) < MaxRecords
            /\ records' = IF Raised(exc) THEN records ELSE Append(records, vals)
            /\ last' = Call("copy", id, NoUser, NoRequest, Nothing, Fields, vals,
                            SaveOut(exc))

ValidateRequest ==
    \E id \in 1..Len(records), request \in Requests :
        /\ last' = Call("_validate_request", id, NoUser, request, Nothing, {},
                        records[id], _validate_request(records[id], request))
        /\ UNCHANGED records

HandleExecCode ==
    \E id \in 1..Len(records), uid \in Users, request \in Requests,
       params \in ParamValues :
        LET out == _handle_exec__code(records[id], Self(id, uid), request, params)
        IN  /\ last' = Call("_handle_exec__code", id, uid, request, params, {},
                            records[id],
                            CallOut(out.exc, NoExc, out.res, <<>>, TRUE, out))
            /\ UNCHANGED records

HandleRequest ==
    \E id \in 1..Len(records), uid \in Users, request \in Requests,
       params \in ParamValues :
        /\ last' = Call("_handle_request", id, uid, request, params, {},
                        records[id],
                        _handle_request(records[id], Self(id, uid), request, params))
        /\ UNCHANGED records

\* the controller's entry point: the endpoint of the route is looked up,
\* the request validated and then handled
auto_endpoint(table, route, uid, request, params) ==
    LET id == _find_endpoint(table, route)
        valid == _validate_request(table[id], request)
    IN  IF id = 0
        THEN CallOut(Exc("NotFound", "Not Found"), NoExc, Nothing, <<>>, FALSE,
                     NotCalled)
        ELSE IF Raised(valid.exc) THEN valid
        ELSE _handle_request(table[id], Self(id, uid), request, params)

AutoEndpoint ==
    \E route \in Routes \cup {"/missing"}, uid \in Users, request \in Requests,
       params \in ParamValues :
        LET id == _find_endpoint(records, route)
        IN  /\ last' = Call("auto_endpoint", id, uid, request, params, {},
                            IF id = 0 THEN NoEndpoint ELSE records[id],
                            auto_endpoint(records, route, uid, request, params))
            /\ UNCHANGED records

\* configuration: endpoints are created and written
Next ==
    \/ Create
    \/ Write

Spec == Init /\ [][Next]_vars

\* requests: an endpoint as the saves leave it (any record of mode "code",
\* the constraints running only when their own fields are written) is called
SavedEndpoints ==
    {Endpoint(route, auth, user, "code", snippet, method, ctype) :
        route \in Routes, auth \in AuthTypes, user \in {NoUser} \cup ExecUsers,
        snippet \in Snippets, method \in Methods, ctype \in ContentTypes}

InitRequest ==
    /\ \E e \in SavedEndpoints : records = <<e>>
    /\ last = NoCall

NextRequest ==
    \/ ValidateRequest
    \/ HandleExecCode
    \/ HandleRequest
    \/ AutoEndpoint

SpecRequest == InitRequest /\ [][NextRequest]_vars

\* duplication: a table of records with pairwise distinct routes, copied
CopyRoutes == {"/foo", "/bar", "/baz"}

CopySource(route) ==
    Endpoint(route, "user_endpoint", NoUser, "code", Text(<<StmtResultOk>>), "", "")

InitCopy ==
    /\ \E r1 \in CopyRoutes :
         \/ records = <<CopySource(r1)>>
         \/ \E r2 \in CopyRoutes \ {r1} :
              records = <<CopySource(r1), CopySource(r2)>>
    /\ last = NoCall

NextCopy == Copy

SpecCopy == InitCopy /\ [][NextCopy]_vars

----------------------------------------------------------------------------
(* Properties.                                                             *)

IsSave == last.op \in {"create", "write"}

\* a snippet with no line of code: unset, empty, or every line blank or a
\* comment
BlankOrCommentOnly(field) ==
    LET lines == splitlines(OrEmpty(field)) IN
    \A i \in 1..Len(lines) :
        strip(lines[i], {SP}) = <<>> \/ startswith(lines[i], HASH)

\* C1: a save that runs _check_exec_mode on a record of mode "code" whose
\* snippet is blank or comment-only fails with a UserError.
C1_BlankSnippetRejected ==
    ( /\ IsSave
      /\ "_check_exec_mode" \in last.checked
      /\ last.vals.exec_mode = "code"
      /\ BlankOrCommentOnly(last.vals.code_snippet) )
    => last.exc.class = "UserError"

\* C2: every persisted record with auth_type "public" has exec_as_user_id
\* set.
C2_PublicHasExecUser ==
    \A i \in 1..Len(records) :
        records[i].auth_type = "public" => records[i].exec_as_user_id # NoUser

\* C9: a save that runs _check_exec_mode on a record whose mode has no
\* _validate_exec__<mode> method, and that meets the auth constraint, raises
\* nothing and is persisted.
C9_MissingValidatorIsNoOp ==
    ( /\ IsSave
      /\ "_check_exec_mode" \in last.checked
      /\ ("_validate_exec__" \o last.vals.exec_mode) \notin ClassAttrs
      /\ ~(last.vals.auth_type = "public" /\ last.vals.exec_as_user_id = NoUser) )
    => ( /\ ~Raised(last.exc)
         /\ last.id # 0
         /\ records[last.id] = last.vals )

\* the handler ran the evaluator on the snippet, which ran to its end
Evaluated == last.ran /\ last.evals = 1 /\ ~Raised(last.evalexc)

EmptySnippet(field) == ~field.isset \/ field.text = <<>>

\* C4: whenever the handler runs on an endpoint whose snippet is empty, it
\* returns {} and the evaluator is not invoked.
C4_EmptySnippetNotEvaluated ==
    (last.ran /\ EmptySnippet(last.vals.code_snippet)) =>
        /\ last.evals = 0
        /\ ~Raised(last.exc)
        /\ last.res = EmptyDict

C4_Witness ==
    /\ last.op = "_handle_exec__code"
    /\ last.vals.code_snippet = Text(<<>>)
    /\ last.params = PyVal("dict", "{'id': 7}")
    /\ last.res = EmptyDict
    /\ last.evals = 0

\* a log entry that carries a message
Carries(entry, msg) ==
    \/ entry = msg
    \/ entry = "_validate_request: BadRequest: " \o msg

\* C5: when the handler raises a UserError or ValidationError in
\* _handle_request, the caller gets a BadRequest without the original
\* message and the original message is in the log.
C5_OriginalMessageLogged ==
    ( /\ last.op = "_handle_request"
      /\ last.hexc.class \in {"UserError", "ValidationError"} )
    => ( /\ last.exc.class = "BadRequest"
         /\ last.exc.msg # last.hexc.msg
         /\ \E i \in 1..Len(last.log) : Carries(last.log[i], last.hexc.msg) )

IsValidated == last.op = "_validate_request" \/ (last.op = "auto_endpoint" /\ last.id # 0)

MethodMismatch ==
    last.vals.request_method # "" /\ last.vals.request_method # last.request.method

ContentTypeMismatch ==
    /\ last.vals.request_content_type # ""
    /\ last.vals.request_content_type # last.request.content_type

\* C6: a declared method that differs from the request's raises
\* MethodNotAllowed after logging, and the handler does not run; failing
\* that, a declared content type that differs raises UnsupportedMediaType;
\* otherwise validation raises nothing.
C6_RequestValidated ==
    IsValidated =>
        /\ MethodMismatch =>
              /\ last.exc.class = "MethodNotAllowed"
              /\ last.log = <<"_validate_request: MethodNotAllowed">>
              /\ ~last.ran /\ last.evals = 0
        /\ (~MethodMismatch /\ ContentTypeMismatch) =>
              /\ last.exc.class = "UnsupportedMediaType"
              /\ last.log = <<"_validate_request: UnsupportedMediaType">>
              /\ ~last.ran /\ last.evals = 0
        /\ (~MethodMismatch /\ ~ContentTypeMismatch) =>
              /\ last.exc.class \notin {"MethodNotAllowed", "UnsupportedMediaType"}
              /\ last.op = "_validate_request" => ~Raised(last.exc)
              /\ last.op = "auto_endpoint" => last.ran

C6_Witness ==
    /\ last.op = "auto_endpoint"
    /\ last.vals.request_method = "GET"
    /\ last.request.method = "POST"
    /\ last.exc.class = "MethodNotAllowed"
    /\ ~last.ran

\* the identity the snippet must run as
RunsAs ==
    IF last.vals.exec_as_user_id # NoUser THEN last.vals.exec_as_user_id
    ELSE last.uid

\* C8: in _handle_request the `user` and `endpoint` of the evaluation context
\* carry exec_as_user_id when it is set, and the calling identity otherwise.
C8_RunsAsExecUser ==
    (last.op \in {"_handle_request", "auto_endpoint"} /\ last.evals = 1) =>
        /\ last.ctx.user = RunsAs
        /\ last.ctx.endpoint = Self(last.id, RunsAs)
        /\ (last.vals.code_snippet = Text(<<StmtResultCtx>>) /\ ~Raised(last.exc))
              => last.res = PyVal("dict", "{'user': " \o ToString(RunsAs)
                                         \o ", 'params': " \o last.got.repr \o "}")

C8_Witness ==
    /\ last.op = "_handle_request"
    /\ last.evals = 1
    /\ last.uid = 2
    /\ last.vals.exec_as_user_id = 1
    /\ last.ctx.user = 1
    /\ last.vals.code_snippet = Text(<<StmtResultCtx>>)

\* C10: the handler of _handle_request, which accepts `params`, receives
\* exactly the params passed to _handle_request.
C10_HandlerReceivesParams ==
    (last.op = "_handle_request" /\ last.ran) => last.got = last.params

\* C7: no two records share a route.
C7_RoutesUnique ==
    \A i, j \in 1..Len(records) :
        i # j => records[i].route # records[j].route

====
